---- MODULE Spec2Model ----
(***************************************************************************)
(* The service worker of baytides/home (src/sw.js, the v6 worker, lines    *)
(* 261-691): the offline form queue (handleFormSubmission,                 *)
(* queueFormSubmission, getQueuedForms, removeQueuedForm,                  *)
(* processQueuedForms and the events that start a drain) and the cache     *)
(* strategies.  Every await of the source is a step boundary: an action    *)
(* is the code that runs between two awaits.                               *)
(***************************************************************************)
EXTENDS Integers, Sequences, FiniteSets, Bags, TLC

(***************************************************************************)
(* Bounds of the model.                                                    *)
(***************************************************************************)
MaxHandlers == 2      \* form POSTs intercepted in one run
MaxDrains == 2        \* drains (processQueuedForms calls) in one run
MaxTicks == 1         \* ticks of the millisecond clock in one run
NumClients == 1       \* window clients returned by clients.matchAll()
ClockStart == 10      \* Date.now() at the start of the run

Handlers == 1..MaxHandlers
Drains == 1..MaxDrains
Clients == 1..NumClients

(***************************************************************************)
(* Inputs: the form POSTs the page can make.  A body is the ordered list   *)
(* of (name, value) text fields of a FormData; a name may repeat.          *)
(***************************************************************************)
Field(n, v) == [name |-> n, value |-> v]

Request(url, fields) ==
    [ url |-> url, method |-> "POST", fields |-> fields, headers |-> "form" ]

FormPosts ==
    { Request("/api/contact",
              << Field("name", "A"), Field("email", "B") >>),
      Request("https://forms.baytides.org/submit",
              << Field("name", "A"), Field("name", "B") >>) }

NetStatuses == { 200, 500 }

StoreOutcomes == { "ok", "error", "abort" }

SyncTags == { "form-sync", "other-sync" }

MessageData == { "processQueue", "skipWaiting" }

(***************************************************************************)
(* Helpers.                                                                *)
(***************************************************************************)
\* Response.ok: the status is in the range 200-299.
IsOk(resp) == resp.status >= 200 /\ resp.status <= 299

\* Number.prototype.toString(): the decimal digits, most significant first.
RECURSIVE NumberToString(_)
NumberToString(n) == IF n < 10 THEN << n >> ELSE Append(NumberToString(n \div 10), n % 10)

\* Order of two string keys of an object store: code units left to right, a
\* proper prefix first.
RECURSIVE KeyLess(_, _)
KeyLess(a, b) ==
    IF b = << >> THEN FALSE
    ELSE IF a = << >> THEN TRUE
    ELSE IF Head(a) # Head(b) THEN Head(a) < Head(b)
    ELSE KeyLess(Tail(a), Tail(b))

\* data[key] = value on a plain object: an own key keeps its place and takes
\* the new value, a new key goes last.
SetProperty(data, key, value) ==
    IF \E i \in 1..Len(data) : data[i].name = key
    THEN [i \in 1..Len(data) |->
            IF data[i].name = key THEN Field(key, value) ELSE data[i]]
    ELSE Append(data, Field(key, value))

\* formData.forEach((value, key) => { data[key] = value; })
RECURSIVE FormDataToObject(_, _)
FormDataToObject(fields, data) ==
    IF fields = << >> THEN data
    ELSE FormDataToObject(Tail(fields),
                          SetProperty(data, Head(fields).name, Head(fields).value))

\* Object.entries(form.data).forEach(([key, value]) => formData.append(key, value))
RECURSIVE ObjectToFormData(_, _)
ObjectToFormData(data, formData) ==
    IF data = << >> THEN formData
    ELSE ObjectToFormData(Tail(data),
                          Append(formData, Field(Head(data).name, Head(data).value)))

\* The record queueFormSubmission builds from the request at clock value now.
QueuedForm(req, now) ==
    [ id        |-> NumberToString(now),
      url       |-> req.url,
      method    |-> req.method,
      data      |-> FormDataToObject(req.fields, << >>),
      timestamp |-> now,
      headers   |-> req.headers ]

\* store.getAll(): the records in ascending key order.
RECURSIVE GetAll(_)
GetAll(S) ==
    IF S = {} THEN << >>
    ELSE LET first == CHOOSE r \in S : \A q \in S \ {r} : KeyLess(r.id, q.id)
         IN  << first >> \o GetAll(S \ {first})

\* store.add(record) is rejected (ConstraintError) when the key is taken.
KeyTaken(S, id) == \E r \in S : r.id = id

\* store.delete(id)
DeleteKey(S, id) == { r \in S : r.id # id }

\* The synthetic responses of handleFormSubmission.
QueuedResponse(form) ==
    [ src |-> "worker", status |-> 202, success |-> TRUE, queued |-> TRUE,
      id |-> form.id ]

QueueFailedResponse ==
    [ src |-> "worker", status |-> 503, success |-> FALSE, queued |-> FALSE,
      id |-> << >> ]

NetworkResponse(s) ==
    [ src |-> "network", status |-> s, success |-> FALSE, queued |-> FALSE,
      id |-> << >> ]

NoRequest == [ url |-> "", method |-> "", fields |-> << >>, headers |-> "" ]
NotSettled == -1
NoForm == QueuedForm(NoRequest, 0)
NoResponse == [ src |-> "none", status |-> 0, success |-> FALSE, queued |-> FALSE,
                id |-> << >> ]

(***************************************************************************)
(* The caches and the GET requests of the fetch listener.                  *)
(***************************************************************************)
MAX_DYNAMIC_ITEMS == 2   \* 50 in the worker; the precache is below it there too
MaxGets == 2             \* GET requests in the fetch listener at one time
MaxVersions == 2         \* versions of the site's content in one run
Gets == 1..MaxGets

CACHE_VERSION == "v6"
\* The version whose worker is active while this one installs.
PreviousVersion == "v2"
STATIC_CACHE == "baytides-static-v6"
DYNAMIC_CACHE == "baytides-dynamic-v6"
IMAGE_CACHE == "baytides-images-v6"
\* The caches the install listener fills, and validCaches of the activate
\* listener.
Precached == { STATIC_CACHE, IMAGE_CACHE }
validCaches == { STATIC_CACHE, DYNAMIC_CACHE, IMAGE_CACHE }
\* The caches the workers of the earlier versions created.
EarlierCaches == { "baytides-v1", "baytides-static-v2", "baytides-dynamic-v2",
                   "baytides-images-v2" }

\* caches.match looks the caches up in the order they were created in: the
\* install listener opens the static and then the image cache, and the
\* dynamic cache is opened by the first write to it.
CacheOrder == << STATIC_CACHE, IMAGE_CACHE, DYNAMIC_CACHE >>

\* url.pathname, split where the regular expressions of the listener look:
\* the part matched by /\.(...)$/, lower-cased, and what is before it.
Path(stem, ext) == [ stem |-> stem, ext |-> ext ]

RootPath == Path("/", "")
OfflinePath == Path("/offline", "")

\* Two of the sixteen precached routes and one of the two precached images.
STATIC_ASSETS == << RootPath, OfflinePath >>
IMAGE_ASSETS == << Path("/assets/images/hero-bg", "webp") >>
\* What the install listener adds to a precached cache.
Manifest(name) == IF name = STATIC_CACHE THEN STATIC_ASSETS ELSE IMAGE_ASSETS

Get(url, destination, mode) ==
    [ url |-> url, destination |-> destination, mode |-> mode ]

\* The same-origin GET requests of the pages: a navigation to the root, a
\* style sheet, a precached image, a resource with no extension that one page
\* uses as an image and another as a script, and two data files read by
\* fetch().
GetRequests ==
    { Get(RootPath, "document", "navigate"),
      Get(Path("/assets/css/main", "css"), "style", "no-cors"),
      Get(Path("/assets/images/hero-bg", "webp"), "image", "no-cors"),
      Get(Path("/media/badge", ""), "image", "no-cors"),
      Get(Path("/media/badge", ""), "script", "no-cors"),
      Get(Path("/data/events", "json"), "", "cors"),
      Get(Path("/data/projects", "json"), "", "cors"),
      Get(Path("/gallery/tide", "jpg"), "document", "navigate") }

Urls == { r.url : r \in GetRequests } \cup { OfflinePath }

ImageExtensions == { "webp", "jpg", "jpeg", "png", "gif", "svg", "ico" }
StyleExtensions == { "css", "js" }

\* Strategy with a bug: the branch of the pages comes first.
StrategyPagesFirst(request) ==
    IF \/ request.mode = "navigate"
       \/ request.url.ext = "html"
       \/ request.url = RootPath
    THEN [ name |-> "networkFirst", cacheName |-> DYNAMIC_CACHE ]
    ELSE IF request.destination = "image" \/ request.url.ext \in ImageExtensions
    THEN [ name |-> "cacheFirst", cacheName |-> IMAGE_CACHE ]
    ELSE IF \/ request.destination = "style"
            \/ request.destination = "script"
            \/ request.url.ext \in StyleExtensions
    THEN [ name |-> "staleWhileRevalidate", cacheName |-> STATIC_CACHE ]
    ELSE [ name |-> "staleWhileRevalidate", cacheName |-> DYNAMIC_CACHE ]

\* The strategy and the cache the fetch listener picks: the first branch
\* that matches.
Strategy(request) ==
    IF request.destination = "image" \/ request.url.ext \in ImageExtensions
    THEN [ name |-> "cacheFirst", cacheName |-> IMAGE_CACHE ]
    ELSE IF \/ request.destination = "style"
            \/ request.destination = "script"
            \/ request.url.ext \in StyleExtensions
    THEN [ name |-> "staleWhileRevalidate", cacheName |-> STATIC_CACHE ]
    ELSE IF \/ request.mode = "navigate"
            \/ request.url.ext = "html"
            \/ request.url = RootPath
    THEN [ name |-> "networkFirst", cacheName |-> DYNAMIC_CACHE ]
    ELSE [ name |-> "staleWhileRevalidate", cacheName |-> DYNAMIC_CACHE ]

\* A response: what it is of, its status and the version of its content.
OkResponse(url, version) == [ url |-> url, status |-> 200, version |-> version ]
ErrorResponse(url) == [ url |-> url, status |-> 500, version |-> 0 ]
\* new Response('Offline', { status: 503 })
OfflineResponse == [ url |-> Path("", ""), status |-> 503, version |-> 0 ]
\* null, or undefined: no response
Null == [ url |-> Path("", ""), status |-> 0, version |-> 0 ]
\* respondWith has not been given a response yet
Unanswered == [ url |-> Path("pending", ""), status |-> 0, version |-> 0 ]
NoGet == Get(Path("", ""), "", "")

\* cache.match(url): the response stored for url, or undefined.
RECURSIVE Match(_, _)
Match(cache, url) ==
    IF cache = << >> THEN Null
    ELSE IF Head(cache).url = url THEN Head(cache)
    ELSE Match(Tail(cache), url)

\* caches.match(url): the first match of the caches from cache number i on.
RECURSIVE CachesMatchFrom(_, _, _)
CachesMatchFrom(cs, url, i) ==
    IF i > Len(CacheOrder) THEN Null
    ELSE IF Match(cs[CacheOrder[i]], url) # Null
    THEN Match(cs[CacheOrder[i]], url)
    ELSE CachesMatchFrom(cs, url, i + 1)

CachesMatch(cs, url) == CachesMatchFrom(cs, url, 1)

\* cache.delete(url)
RECURSIVE CacheDelete(_, _)
CacheDelete(cache, url) ==
    IF cache = << >> THEN << >>
    ELSE IF Head(cache).url = url THEN CacheDelete(Tail(cache), url)
    ELSE << Head(cache) >> \o CacheDelete(Tail(cache), url)

\* cache.put(request, response): the response stored for the url is removed
\* and the new one becomes the newest of the cache.
CachePut(cache, response) == Append(CacheDelete(cache, response.url), response)

\* cache.keys(): the stored requests, oldest first.
CacheKeys(cache) == [ i \in 1..Len(cache) |-> cache[i].url ]

\* cache.addAll(assets) of the install listener.
AddAll(assets, version) == [ i \in 1..Len(assets) |-> OkResponse(assets[i], version) ]

\* cache.addAll(assets): every response fetched is put, in the order of assets.
RECURSIVE PutAll(_, _)
PutAll(cache, responses) ==
    IF responses = << >> THEN cache
    ELSE PutAll(CachePut(cache, Head(responses)), Tail(responses))

\* What respondWith is given for `response`: the response, or for none the
\* promise of caches.match('/offline') (an object, so the || never reaches
\* caches.match('/')) for a navigation and the 503 for another request.
Responded(cs, request, response) ==
    IF response # Null THEN response
    ELSE IF request.mode = "navigate" THEN CachesMatch(cs, OfflinePath)
    ELSE OfflineResponse

(***************************************************************************)
(* What the fetch listener sees: a request with its method and the parts   *)
(* of new URL(request.url).  A hostname and a pathname are the sequences   *)
(* of their names and separators.                                          *)
(***************************************************************************)
LocationOrigin == "https://baytides.org"
Site == << "baytides", ".", "org" >>
FormsHost == << "forms", ".", "baytides", ".", "org" >>

Parsed(request, method, origin, hostname, pathname) ==
    [ method |-> method, origin |-> origin, hostname |-> hostname,
      pathname |-> pathname ] @@ request

\* The method and the url of a request.
Target(request) ==
    [ method |-> request.method, origin |-> request.origin,
      hostname |-> request.hostname, pathname |-> request.pathname ]

\* String.prototype.includes
Includes(string, part) ==
    \E i \in 0..(Len(string) - Len(part)) :
        SubSeq(string, i + 1, i + Len(part)) = part

formEndpoints ==
    << << "/", "api", "/", "volunteer" >>,
       << "/", "api", "/", "contact" >>,
       << "/", "api", "/", "donate" >>,
       << "/", "api", "/", "newsletter" >>,
       FormsHost >>

isFormEndpoint(url) ==
    \E i \in 1..Len(formEndpoints) :
        Includes(url.pathname, formEndpoints[i]) \/ Includes(url.hostname, formEndpoints[i])

\* The requests with a body.
BodyEvents ==
    { \* POST /api/contact
      Parsed(Request("/api/contact", << Field("name", "A"), Field("email", "B") >>),
             "POST", LocationOrigin, Site, << "/", "api", "/", "contact" >>),
      \* POST https://forms.baytides.org/submit
      Parsed(Request("https://forms.baytides.org/submit",
                     << Field("name", "A"), Field("name", "B") >>),
             "POST", "https://forms.baytides.org", FormsHost, << "/", "submit" >>),
      \* POST https://crm.example/hooks/api/donate
      Parsed(Request("https://crm.example/hooks/api/donate", << Field("name", "A") >>),
             "POST", "https://crm.example", << "crm", ".", "example" >>,
             << "/", "hooks", "/", "api", "/", "donate" >>),
      \* POST /api/search and POST /subscribe
      Parsed(Request("/api/search", << Field("q", "A") >>),
             "POST", LocationOrigin, Site, << "/", "api", "/", "search" >>),
      Parsed(Request("/subscribe", << Field("email", "B") >>),
             "POST", LocationOrigin, Site, << "/", "subscribe" >>),
      \* PUT /api/contact and DELETE https://forms.baytides.org/submit
      Parsed([ Request("/api/contact", << Field("name", "A") >>) EXCEPT !.method = "PUT" ],
             "PUT", LocationOrigin, Site, << "/", "api", "/", "contact" >>),
      Parsed([ Request("https://forms.baytides.org/submit", << >>)
                  EXCEPT !.method = "DELETE" ],
             "DELETE", "https://forms.baytides.org", FormsHost, << "/", "submit" >>) }

\* The requests without one.
ReadEvents ==
    { \* HEAD /
      Parsed(Get(RootPath, "", "cors"), "HEAD", LocationOrigin, Site, << "/" >>),
      \* GET https://cdn.example/assets/css/main.css
      Parsed(Get(Path("/assets/css/main", "css"), "style", "no-cors"),
             "GET", "https://cdn.example", << "cdn", ".", "example" >>,
             << "/", "assets", "/", "css", "/", "main", ".", "css" >>),
      \* GET https://forms.baytides.org/media/badge
      Parsed(Get(Path("/media/badge", ""), "image", "no-cors"),
             "GET", "https://forms.baytides.org", FormsHost,
             << "/", "media", "/", "badge" >>),
      \* GET /api/events
      Parsed(Get(Path("/api/events", ""), "", "cors"),
             "GET", LocationOrigin, Site, << "/", "api", "/", "events" >>),
      \* GET /, GET /assets/css/main.css and GET /data/events.json
      Parsed(Get(RootPath, "document", "navigate"),
             "GET", LocationOrigin, Site, << "/" >>),
      Parsed(Get(Path("/assets/css/main", "css"), "style", "no-cors"),
             "GET", LocationOrigin, Site,
             << "/", "assets", "/", "css", "/", "main", ".", "css" >>),
      Parsed(Get(Path("/data/events", "json"), "", "cors"),
             "GET", LocationOrigin, Site,
             << "/", "data", "/", "events", ".", "json" >>),
      \* GET /gallery/tide.jpg, a navigation
      Parsed(Get(Path("/gallery/tide", "jpg"), "document", "navigate"),
             "GET", LocationOrigin, Site,
             << "/", "gallery", "/", "tide", ".", "jpg" >>) }

(***************************************************************************)
(* State.                                                                  *)
(***************************************************************************)
VARIABLES
    clock,          \* the value Date.now() returns
    net,            \* the network: "unreliable", or "restored" for good
    syncSupported,  \* 'sync' in self.registration
    store,          \* the formQueue object store: records, one per key
    hpc,            \* handleFormSubmission h: where it is suspended
    hreq,           \* its request
    hfetches,       \* the network attempts it has made
    hlive,          \* what its live fetch settled with: a status, 0 rejected
    hform,          \* the queuedForm it built
    hfault,         \* whether a store operation of it has failed
    hresp,          \* the response it resolved with
    dpc,            \* processQueuedForms d: where it is suspended
    dforms,         \* queuedForms: the snapshot getQueuedForms returned
    dindex,         \* the position of the for loop in queuedForms
    dfault,         \* whether a store operation of it has failed
    posts,          \* log: the replay fetches that have settled
    pending,        \* clients.matchAll() calls not yet resolved, in order
    messages,       \* log: the messages posted to clients (a bag)
    origin,         \* the version of the content the site serves
    caches,         \* CacheStorage: for each cache its responses, oldest first
    gpc,            \* GET g in the fetch listener: where it is suspended
    greq,           \* its request
    gfetched,       \* the ok response of its fetch, to be put
    ganswer,        \* what respondWith was given
    gkeys,          \* keys: the snapshot cache.keys() returned to its trimCache
    gfloor,         \* log: the version revalidated for its url when it began
    revalidated,    \* log: per url, the version of the last revalidation
    wstate,         \* this worker: its state, and where its listener is
    adding,         \* install: per precached cache, where its promise is
    deleting,       \* activate: the caches whose caches.delete is pending
    skipped,        \* whether self.skipWaiting() has been called
    active,         \* the version of the registration's active worker
    claimed,        \* whether self.clients.claim() has been called
    passed          \* log: the requests the fetch listener returned for

queuevars == << clock, net, syncSupported, store, hpc, hreq, hfetches, hlive,
                hform, hfault, hresp, dpc, dforms, dindex, dfault, posts,
                pending, messages >>

cachevars == << origin, caches, gpc, greq, gfetched, ganswer, gkeys, gfloor,
                revalidated >>

lifevars == << wstate, adding, deleting, skipped, active, claimed >>

vars == << queuevars, cachevars, lifevars, passed >>

envvars == << clock, net, syncSupported >>
hvars == << hpc, hreq, hfetches, hlive, hform, hfault, hresp >>
dvars == << dpc, dforms, dindex, dfault, posts >>

Init ==
    /\ clock = ClockStart
    /\ net = "unreliable"
    /\ syncSupported \in BOOLEAN
    /\ store = {}
    /\ hpc = [h \in Handlers |-> "idle"]
    /\ hreq = [h \in Handlers |-> NoRequest]
    /\ hfetches = [h \in Handlers |-> 0]
    /\ hlive = [h \in Handlers |-> NotSettled]
    /\ hform = [h \in Handlers |-> NoForm]
    /\ hfault = [h \in Handlers |-> FALSE]
    /\ hresp = [h \in Handlers |-> NoResponse]
    /\ dpc = [d \in Drains |-> "idle"]
    /\ dforms = [d \in Drains |-> << >>]
    /\ dindex = [d \in Drains |-> 0]
    /\ dfault = [d \in Drains |-> FALSE]
    /\ posts = {}
    /\ pending = << >>
    /\ messages = EmptyBag
    /\ origin = 1
    /\ caches = [ name \in { STATIC_CACHE, IMAGE_CACHE, DYNAMIC_CACHE } |->
                    IF name = STATIC_CACHE THEN AddAll(STATIC_ASSETS, 1)
                    ELSE IF name = IMAGE_CACHE THEN AddAll(IMAGE_ASSETS, 1)
                    ELSE << >> ]
    /\ gpc = [g \in Gets |-> "idle"]
    /\ greq = [g \in Gets |-> NoGet]
    /\ gfetched = [g \in Gets |-> Null]
    /\ ganswer = [g \in Gets |-> Unanswered]
    /\ gkeys = [g \in Gets |-> << >>]
    /\ gfloor = [g \in Gets |-> 0]
    /\ revalidated = [u \in Urls |-> 0]
    /\ wstate = "activated"
    /\ adding = [ name \in Precached |-> "added" ]
    /\ deleting = {}
    /\ skipped = TRUE
    /\ active = CACHE_VERSION
    /\ claimed = TRUE
    /\ passed = {}

\* What a fetch can settle with: a status, or 0 for a rejection (no response).
FetchOutcomes == IF net = "restored" THEN { 200 } ELSE NetStatuses \cup { 0 }

\* The clock advances by a millisecond.
Tick ==
    /\ clock < ClockStart + MaxTicks
    /\ clock' = clock + 1
    /\ UNCHANGED << net, syncSupported, store, hvars, dvars, pending, messages >>
    /\ UNCHANGED << cachevars, lifevars, passed >>

\* Connectivity comes back and the endpoint answers with 200 from now on.
NetworkRestored ==
    /\ net = "unreliable"
    /\ net' = "restored"
    /\ UNCHANGED << clock, syncSupported, store, hvars, dvars, pending, messages >>
    /\ UNCHANGED << cachevars, lifevars, passed >>

\* clients.matchAll().then(clients => clients.forEach(c => c.postMessage(m)))
\* for the oldest unresolved matchAll.
Notify ==
    /\ pending # << >>
    /\ messages' = messages (+) SetToBag({ [ type |-> Head(pending).type,
                                             form |-> Head(pending).form,
                                             by |-> Head(pending).by,
                                             client |-> c ] : c \in Clients })
    /\ pending' = Tail(pending)
    /\ UNCHANGED << envvars, store, hvars, dvars >>
    /\ UNCHANGED << cachevars, lifevars, passed >>

(***************************************************************************)
(* handleFormSubmission(request), called by the fetch listener for a POST  *)
(* to a form endpoint.                                                     *)
(***************************************************************************)
\* The fetch event: fetch(request.clone()) is issued.
FormPost(h, request) ==
    /\ hpc[h] = "idle"
    /\ hreq' = [hreq EXCEPT ![h] = request]
    /\ hfetches' = [hfetches EXCEPT ![h] = @ + 1]
    /\ hpc' = [hpc EXCEPT ![h] = "fetch"]
    /\ UNCHANGED << envvars, store, hlive, hform, hfault, hresp, dvars, pending,
                    messages >>
    /\ UNCHANGED << cachevars, lifevars, passed >>

\* LiveFetchSettles with a bug: a response that is not ok is queued like a
\* network failure.
LiveFetchQueuesHttpErrors(h, status) ==
    /\ hpc[h] = "fetch"
    /\ hlive' = [hlive EXCEPT ![h] = status]
    /\ IF status # 0 /\ IsOk([status |-> status])
       THEN /\ hresp' = [hresp EXCEPT ![h] = NetworkResponse(status)]
            /\ hpc' = [hpc EXCEPT ![h] = "done"]
            /\ hform' = hform
       ELSE /\ hform' = [hform EXCEPT ![h] = QueuedForm(hreq[h], clock)]
            /\ hpc' = [hpc EXCEPT ![h] = "add"]
            /\ hresp' = hresp
    /\ UNCHANGED << envvars, store, hreq, hfetches, hfault, dvars, pending,
                    messages >>
    /\ UNCHANGED << cachevars, lifevars, passed >>

\* The live fetch settles.  Resolved, with any status: return response.
\* Rejected: queueFormSubmission reads the body, builds queuedForm and opens
\* the database.
LiveFetchSettles(h, status) ==
    /\ hpc[h] = "fetch"
    /\ hlive' = [hlive EXCEPT ![h] = status]
    /\ IF status # 0
       THEN /\ hresp' = [hresp EXCEPT ![h] = NetworkResponse(status)]
            /\ hpc' = [hpc EXCEPT ![h] = "done"]
            /\ hform' = hform
       ELSE /\ hform' = [hform EXCEPT ![h] = QueuedForm(hreq[h], clock)]
            /\ hpc' = [hpc EXCEPT ![h] = "add"]
            /\ hresp' = hresp
    /\ UNCHANGED << envvars, store, hreq, hfetches, hfault, dvars, pending,
                    messages >>
    /\ UNCHANGED << cachevars, lifevars, passed >>

\* The open request and the readwrite transaction of queueFormSubmission
\* settle.  "ok": the transaction completes, unless the key is taken, and then
\* the add request fails and its error event reaches tx.onerror.  "error":
\* dbRequest.onerror or tx.onerror runs.  "abort": the transaction aborts with
\* no request in error (a failed commit): only an abort event is fired, which
\* queueFormSubmission does not listen to, and its promise never settles.
AddSettles(h, outcome) ==
    /\ hpc[h] = "add"
    /\ hfault' = [hfault EXCEPT ![h] = outcome # "ok"]
    /\ IF outcome = "ok" /\ ~KeyTaken(store, hform[h].id)
       THEN /\ store' = store \cup { hform[h] }
            /\ pending' = Append(pending, [ type |-> "FORM_QUEUED",
                                            form |-> hform[h],
                                            by |-> << "handler", h >> ])
            /\ IF syncSupported
               THEN /\ hpc' = [hpc EXCEPT ![h] = "register"]
                    /\ hresp' = hresp
               ELSE /\ hpc' = [hpc EXCEPT ![h] = "done"]
                    /\ hresp' = [hresp EXCEPT ![h] = QueuedResponse(hform[h])]
       ELSE IF outcome = "abort"
       THEN /\ hpc' = [hpc EXCEPT ![h] = "hung"]
            /\ UNCHANGED << store, pending, hresp >>
       ELSE /\ hpc' = [hpc EXCEPT ![h] = "done"]
            /\ hresp' = [hresp EXCEPT ![h] = QueueFailedResponse]
            /\ UNCHANGED << store, pending >>
    /\ UNCHANGED << envvars, hreq, hfetches, hlive, hform, dvars, messages >>
    /\ UNCHANGED << cachevars, lifevars, passed >>

\* await self.registration.sync.register('form-sync') settles: resolved, the
\* 202 is returned; rejected, the inner catch returns the 503.
RegisterSettles(h, resolved) ==
    /\ hpc[h] = "register"
    /\ hresp' = [hresp EXCEPT ![h] = IF resolved THEN QueuedResponse(hform[h])
                                     ELSE QueueFailedResponse]
    /\ hpc' = [hpc EXCEPT ![h] = "done"]
    /\ UNCHANGED << envvars, store, hreq, hfetches, hlive, hform, hfault, dvars,
                    pending, messages >>
    /\ UNCHANGED << cachevars, lifevars, passed >>

(***************************************************************************)
(* processQueuedForms() and the listeners that call it.                    *)
(***************************************************************************)
\* processQueuedForms() is called: getQueuedForms() is issued.
DrainStarts(d) ==
    /\ dpc[d] = "idle"
    /\ dpc' = [dpc EXCEPT ![d] = "load"]
    /\ UNCHANGED << envvars, store, hvars, dforms, dindex, dfault, posts,
                    pending, messages >>
    /\ UNCHANGED << cachevars, lifevars, passed >>

\* self.addEventListener('sync', ...)
SyncEvent(d, tag) == tag = "form-sync" /\ DrainStarts(d)

\* self.addEventListener('periodicsync', ...)
PeriodicSyncEvent(d, tag) == tag = "form-sync" /\ DrainStarts(d)

\* self.addEventListener('online', ...)
OnlineEvent(d) == DrainStarts(d)

\* self.addEventListener('message', ...)
MessageEvent(d, data) == data = "processQueue" /\ DrainStarts(d)

\* The position after the loop body for dforms[d][dindex[d]].
NextForm(d) ==
    /\ dindex' = [dindex EXCEPT ![d] = @ + 1]
    /\ dpc' = [dpc EXCEPT ![d] = IF dindex[d] + 1 > Len(dforms[d])
                                 THEN "done" ELSE "post"]

\* await getQueuedForms() settles.  It rejects on an open or request error and
\* processQueuedForms rejects with it.
FormsLoaded(d, outcome) ==
    /\ dpc[d] = "load"
    /\ IF outcome = "ok"
       THEN /\ dforms' = [dforms EXCEPT ![d] = GetAll(store)]
            /\ dindex' = [dindex EXCEPT ![d] = 1]
            /\ dpc' = [dpc EXCEPT ![d] = IF store = {} THEN "done" ELSE "post"]
            /\ dfault' = dfault
       ELSE /\ dpc' = [dpc EXCEPT ![d] = "rejected"]
            /\ dfault' = [dfault EXCEPT ![d] = TRUE]
            /\ UNCHANGED << dforms, dindex >>
    /\ UNCHANGED << envvars, store, hvars, posts, pending, messages >>
    /\ UNCHANGED << cachevars, lifevars, passed >>

\* ReplaySettles with a bug: every response, ok or not, counts as a success.
ReplayTakesAnyResponse(d, status) ==
    /\ dpc[d] = "post"
    /\ LET form == dforms[d][dindex[d]] IN
       /\ posts' = posts \cup { [ by |-> d, form |-> form,
                                  url |-> form.url, method |-> form.method,
                                  body |-> ObjectToFormData(form.data, << >>),
                                  status |-> status ] }
       /\ IF status # 0
          THEN /\ dpc' = [dpc EXCEPT ![d] = "remove"]
               /\ dindex' = dindex
          ELSE NextForm(d)
    /\ UNCHANGED << envvars, store, hvars, dforms, dfault, pending, messages >>
    /\ UNCHANGED << cachevars, lifevars, passed >>

\* ReplaySettles with a bug: every replay goes to the contact endpoint.
ReplayToOneUrl(d, status) ==
    /\ dpc[d] = "post"
    /\ LET form == dforms[d][dindex[d]] IN
       /\ posts' = posts \cup { [ by |-> d, form |-> form,
                                  url |-> "/api/contact", method |-> form.method,
                                  body |-> ObjectToFormData(form.data, << >>),
                                  status |-> status ] }
       /\ IF status # 0 /\ IsOk([status |-> status])
          THEN /\ dpc' = [dpc EXCEPT ![d] = "remove"]
               /\ dindex' = dindex
          ELSE NextForm(d)
    /\ UNCHANGED << envvars, store, hvars, dforms, dfault, pending, messages >>
    /\ UNCHANGED << cachevars, lifevars, passed >>

\* The replay fetch of the current form settles.  An ok response: await
\* removeQueuedForm(form.id).  Another response, or a rejection (caught and
\* logged): the next form.
ReplaySettles(d, status) ==
    /\ dpc[d] = "post"
    /\ LET form == dforms[d][dindex[d]] IN
       /\ posts' = posts \cup { [ by |-> d, form |-> form,
                                  url |-> form.url, method |-> form.method,
                                  body |-> ObjectToFormData(form.data, << >>),
                                  status |-> status ] }
       /\ IF status # 0 /\ IsOk([status |-> status])
          THEN /\ dpc' = [dpc EXCEPT ![d] = "remove"]
               /\ dindex' = dindex
          ELSE NextForm(d)
    /\ UNCHANGED << envvars, store, hvars, dforms, dfault, pending, messages >>
    /\ UNCHANGED << cachevars, lifevars, passed >>

\* RemoveSettles with a bug: the clients are told but store.delete is not
\* called.
RemoveKeepsEntry(d, outcome) ==
    /\ dpc[d] = "remove"
    /\ LET form == dforms[d][dindex[d]] IN
       IF outcome = "ok"
       THEN /\ store' = store
            /\ pending' = Append(pending, [ type |-> "FORM_SYNCED",
                                            form |-> form,
                                            by |-> << "drain", d >> ])
            /\ dfault' = dfault
            /\ NextForm(d)
       ELSE IF outcome = "abort"
       THEN /\ dpc' = [dpc EXCEPT ![d] = "hung"]
            /\ dfault' = [dfault EXCEPT ![d] = TRUE]
            /\ UNCHANGED << store, pending, dindex >>
       ELSE /\ NextForm(d)
            /\ dfault' = [dfault EXCEPT ![d] = TRUE]
            /\ UNCHANGED << store, pending >>
    /\ UNCHANGED << envvars, hvars, dforms, posts, messages >>
    /\ UNCHANGED << cachevars, lifevars, passed >>

\* await removeQueuedForm(form.id) settles.  "ok": the delete commits and the
\* clients are told.  "error": it rejects, the catch logs it.  "abort": only
\* an abort event is fired and the promise never settles.
RemoveSettles(d, outcome) ==
    /\ dpc[d] = "remove"
    /\ LET form == dforms[d][dindex[d]] IN
       IF outcome = "ok"
       THEN /\ store' = DeleteKey(store, form.id)
            /\ pending' = Append(pending, [ type |-> "FORM_SYNCED",
                                            form |-> form,
                                            by |-> << "drain", d >> ])
            /\ dfault' = dfault
            /\ NextForm(d)
       ELSE IF outcome = "abort"
       THEN /\ dpc' = [dpc EXCEPT ![d] = "hung"]
            /\ dfault' = [dfault EXCEPT ![d] = TRUE]
            /\ UNCHANGED << store, pending, dindex >>
       ELSE /\ NextForm(d)
            /\ dfault' = [dfault EXCEPT ![d] = TRUE]
            /\ UNCHANGED << store, pending >>
    /\ UNCHANGED << envvars, hvars, dforms, posts, messages >>
    /\ UNCHANGED << cachevars, lifevars, passed >>

(***************************************************************************)
(* The worker with the form POSTs of H and the drains of D.                *)
(***************************************************************************)
QueueStep(H, D) ==
    \/ Tick
    \/ Notify
    \/ \E h \in H, request \in FormPosts : FormPost(h, request)
    \/ \E h \in H, status \in FetchOutcomes : LiveFetchSettles(h, status)
    \/ \E h \in H, outcome \in StoreOutcomes : AddSettles(h, outcome)
    \/ \E h \in H, resolved \in BOOLEAN : RegisterSettles(h, resolved)
    \/ \E d \in D, tag \in SyncTags : SyncEvent(d, tag)
    \/ \E d \in D, tag \in SyncTags : PeriodicSyncEvent(d, tag)
    \/ \E d \in D : OnlineEvent(d)
    \/ \E d \in D, data \in MessageData : MessageEvent(d, data)
    \/ \E d \in D, outcome \in { "ok", "error" } : FormsLoaded(d, outcome)
    \/ \E d \in D, status \in FetchOutcomes : ReplaySettles(d, status)
    \/ \E d \in D, outcome \in StoreOutcomes : RemoveSettles(d, outcome)

\* Any number of overlapping drains.
Next == QueueStep(Handlers, Drains)

Spec == Init /\ [][Next]_vars

\* One drain in the run.
OneDrainNext == QueueStep(Handlers, { 1 })

OneDrainSpec == Init /\ [][OneDrainNext]_vars

\* No drain but d is between its start and its end.
Alone(d) == \A e \in Drains \ { d } : dpc[e] \in { "idle", "done", "rejected" }

\* Drains one after another: a drain starts, and goes on, only while no
\* other has been started and not yet ended.
SequentialNext ==
    \/ Tick
    \/ Notify
    \/ \E h \in Handlers, request \in FormPosts : FormPost(h, request)
    \/ \E h \in Handlers, status \in FetchOutcomes : LiveFetchSettles(h, status)
    \/ \E h \in Handlers, outcome \in StoreOutcomes : AddSettles(h, outcome)
    \/ \E h \in Handlers, resolved \in BOOLEAN : RegisterSettles(h, resolved)
    \/ \E d \in Drains, tag \in SyncTags : Alone(d) /\ SyncEvent(d, tag)
    \/ \E d \in Drains, tag \in SyncTags : Alone(d) /\ PeriodicSyncEvent(d, tag)
    \/ \E d \in Drains : Alone(d) /\ OnlineEvent(d)
    \/ \E d \in Drains, data \in MessageData : Alone(d) /\ MessageEvent(d, data)
    \/ \E d \in Drains, outcome \in { "ok", "error" } :
          Alone(d) /\ FormsLoaded(d, outcome)
    \/ \E d \in Drains, status \in FetchOutcomes : Alone(d) /\ ReplaySettles(d, status)
    \/ \E d \in Drains, outcome \in StoreOutcomes : Alone(d) /\ RemoveSettles(d, outcome)

SequentialSpec == Init /\ [][SequentialNext]_vars

\* One drain in the run, started by the page: by the online event or by a
\* message.  Neither listener waits for processQueuedForms or handles its
\* rejection.
PageDrainNext ==
    \/ Tick
    \/ Notify
    \/ \E h \in Handlers, request \in FormPosts : FormPost(h, request)
    \/ \E h \in Handlers, status \in FetchOutcomes : LiveFetchSettles(h, status)
    \/ \E h \in Handlers, outcome \in StoreOutcomes : AddSettles(h, outcome)
    \/ \E h \in Handlers, resolved \in BOOLEAN : RegisterSettles(h, resolved)
    \/ OnlineEvent(1)
    \/ \E data \in MessageData : MessageEvent(1, data)
    \/ \E outcome \in { "ok", "error" } : FormsLoaded(1, outcome)
    \/ \E status \in FetchOutcomes : ReplaySettles(1, status)
    \/ \E outcome \in StoreOutcomes : RemoveSettles(1, outcome)

PageDrainSpec == Init /\ [][PageDrainNext]_vars

(***************************************************************************)
(* The fetch listener for a same-origin GET and the three strategies.      *)
(***************************************************************************)
\* The site is deployed again: every url has new content.
Deploy ==
    /\ origin < MaxVersions
    /\ origin' = origin + 1
    /\ UNCHANGED << caches, gpc, greq, gfetched, ganswer, gkeys, gfloor,
                    revalidated >>
    /\ UNCHANGED << queuevars, lifevars, passed >>

\* GetEvent with a bug: networkFirst looks the caches up first.
GetEventMatchesFirst(g, request) ==
    /\ gpc[g] \in { "idle", "done" }
    /\ greq' = [greq EXCEPT ![g] = request]
    /\ gpc' = [gpc EXCEPT ![g] = "match"]
    /\ gfetched' = [gfetched EXCEPT ![g] = Null]
    /\ ganswer' = [ganswer EXCEPT ![g] = Unanswered]
    /\ gkeys' = [gkeys EXCEPT ![g] = << >>]
    /\ gfloor' = [gfloor EXCEPT ![g] = revalidated[request.url]]
    /\ UNCHANGED << origin, caches, revalidated >>
    /\ UNCHANGED << queuevars, lifevars, passed >>

\* The fetch event of a GET.  networkFirst issues fetch(request); cacheFirst
\* and staleWhileRevalidate issue caches.match(request).
GetEvent(g, request) ==
    /\ gpc[g] \in { "idle", "done" }
    /\ greq' = [greq EXCEPT ![g] = request]
    /\ gpc' = [gpc EXCEPT ![g] = IF Strategy(request).name = "networkFirst"
                                 THEN "fetch" ELSE "match"]
    /\ gfetched' = [gfetched EXCEPT ![g] = Null]
    /\ ganswer' = [ganswer EXCEPT ![g] = Unanswered]
    /\ gkeys' = [gkeys EXCEPT ![g] = << >>]
    /\ gfloor' = [gfloor EXCEPT ![g] = revalidated[request.url]]
    /\ UNCHANGED << origin, caches, revalidated >>
    /\ UNCHANGED << queuevars, lifevars, passed >>

\* MatchSettles with a bug: staleWhileRevalidate always waits for the
\* network.
MatchSettlesWaits(g) ==
    /\ gpc[g] = "match"
    /\ LET cached == CachesMatch(caches, greq[g].url)
           name == Strategy(greq[g]).name
       IN  IF name = "cacheFirst"
           THEN /\ ganswer' = [ganswer EXCEPT ![g] =
                                  IF cached # Null THEN cached ELSE @]
                /\ gpc' = [gpc EXCEPT ![g] =
                              IF cached # Null THEN "done" ELSE "fetch"]
           ELSE IF name = "staleWhileRevalidate"
           THEN /\ ganswer' = ganswer
                /\ gpc' = [gpc EXCEPT ![g] = "fetch"]
           ELSE /\ ganswer' = [ganswer EXCEPT ![g] =
                                  Responded(caches, greq[g], cached)]
                /\ gpc' = [gpc EXCEPT ![g] = "done"]
    /\ UNCHANGED << origin, caches, greq, gfetched, gkeys, gfloor, revalidated >>
    /\ UNCHANGED << queuevars, lifevars, passed >>

\* await caches.match(request) settles.  cacheFirst returns a match and
\* fetches without one; staleWhileRevalidate issues the fetch and returns a
\* match; networkFirst, whose fetch was rejected, returns the match or null.
MatchSettles(g) ==
    /\ gpc[g] = "match"
    /\ LET cached == CachesMatch(caches, greq[g].url)
           name == Strategy(greq[g]).name
       IN  IF name = "cacheFirst"
           THEN /\ ganswer' = [ganswer EXCEPT ![g] =
                                  IF cached # Null THEN cached ELSE @]
                /\ gpc' = [gpc EXCEPT ![g] =
                              IF cached # Null THEN "done" ELSE "fetch"]
           ELSE IF name = "staleWhileRevalidate"
           THEN /\ ganswer' = [ganswer EXCEPT ![g] =
                                  IF cached # Null THEN cached ELSE @]
                /\ gpc' = [gpc EXCEPT ![g] = "fetch"]
           ELSE /\ ganswer' = [ganswer EXCEPT ![g] =
                                  Responded(caches, greq[g], cached)]
                /\ gpc' = [gpc EXCEPT ![g] = "done"]
    /\ UNCHANGED << origin, caches, greq, gfetched, gkeys, gfloor, revalidated >>
    /\ UNCHANGED << queuevars, lifevars, passed >>

\* FetchSettles with a bug: response.ok is not looked at.
FetchSettlesPutsAny(g, outcome) ==
    /\ gpc[g] = "fetch"
    /\ LET name == Strategy(greq[g]).name
           response == IF outcome = "ok" THEN OkResponse(greq[g].url, origin)
                       ELSE IF outcome = "error" THEN ErrorResponse(greq[g].url)
                       ELSE Null
       IN  IF name = "staleWhileRevalidate"
           THEN \* the then() of fetchPromise; fetchPromise is what is
                \* returned when nothing was cached
                /\ gfetched' = [gfetched EXCEPT ![g] =
                                   IF outcome # "reject" THEN response ELSE @]
                /\ gpc' = [gpc EXCEPT ![g] =
                              IF outcome # "reject" THEN "put" ELSE "done"]
                /\ ganswer' = [ganswer EXCEPT ![g] =
                                  IF @ = Unanswered /\ outcome # "ok"
                                  THEN Responded(caches, greq[g], response)
                                  ELSE @]
           ELSE IF outcome = "reject" /\ name = "networkFirst"
           THEN /\ gpc' = [gpc EXCEPT ![g] = "match"]
                /\ UNCHANGED << gfetched, ganswer >>
           ELSE \* cache.put is not awaited: the response is returned
                /\ gfetched' = [gfetched EXCEPT ![g] =
                                   IF outcome # "reject" THEN response ELSE @]
                /\ gpc' = [gpc EXCEPT ![g] =
                              IF outcome # "reject" THEN "put" ELSE "done"]
                /\ ganswer' = [ganswer EXCEPT ![g] =
                                  Responded(caches, greq[g], response)]
    /\ UNCHANGED << origin, caches, greq, gkeys, gfloor, revalidated >>
    /\ UNCHANGED << queuevars, lifevars, passed >>

\* await fetch(request) settles: with the content the site serves ("ok"),
\* with a response that is not ok ("error"), or rejected ("reject").
FetchSettles(g, outcome) ==
    /\ gpc[g] = "fetch"
    /\ LET name == Strategy(greq[g]).name
           response == IF outcome = "ok" THEN OkResponse(greq[g].url, origin)
                       ELSE IF outcome = "error" THEN ErrorResponse(greq[g].url)
                       ELSE Null
       IN  IF name = "staleWhileRevalidate"
           THEN \* the then() of fetchPromise; fetchPromise is what is
                \* returned when nothing was cached
                /\ gfetched' = [gfetched EXCEPT ![g] =
                                   IF outcome = "ok" THEN response ELSE @]
                /\ gpc' = [gpc EXCEPT ![g] =
                              IF outcome = "ok" THEN "put" ELSE "done"]
                /\ ganswer' = [ganswer EXCEPT ![g] =
                                  IF @ = Unanswered /\ outcome # "ok"
                                  THEN Responded(caches, greq[g], response)
                                  ELSE @]
           ELSE IF outcome = "reject" /\ name = "networkFirst"
           THEN /\ gpc' = [gpc EXCEPT ![g] = "match"]
                /\ UNCHANGED << gfetched, ganswer >>
           ELSE \* cache.put is not awaited: the response is returned
                /\ gfetched' = [gfetched EXCEPT ![g] =
                                   IF outcome = "ok" THEN response ELSE @]
                /\ gpc' = [gpc EXCEPT ![g] =
                              IF outcome = "ok" THEN "put" ELSE "done"]
                /\ ganswer' = [ganswer EXCEPT ![g] =
                                  Responded(caches, greq[g], response)]
    /\ UNCHANGED << origin, caches, greq, gkeys, gfloor, revalidated >>
    /\ UNCHANGED << queuevars, lifevars, passed >>

\* cache.put(request, response.clone()) settles.  staleWhileRevalidate awaits
\* it, calls trimCache without awaiting it and resolves fetchPromise.
PutSettles(g) ==
    /\ gpc[g] = "put"
    /\ LET s == Strategy(greq[g]) IN
       /\ caches' = [caches EXCEPT ![s.cacheName] = CachePut(@, gfetched[g])]
       /\ IF s.name = "staleWhileRevalidate"
          THEN /\ gpc' = [gpc EXCEPT ![g] = "keys"]
               /\ ganswer' = [ganswer EXCEPT ![g] =
                                 IF @ = Unanswered THEN gfetched[g] ELSE @]
               /\ revalidated' =
                     IF ganswer[g] # Unanswered
                     THEN [revalidated EXCEPT ![greq[g].url] = gfetched[g].version]
                     ELSE revalidated
          ELSE /\ gpc' = [gpc EXCEPT ![g] = "done"]
               /\ UNCHANGED << ganswer, revalidated >>
    /\ UNCHANGED << origin, greq, gfetched, gkeys, gfloor >>
    /\ UNCHANGED << queuevars, lifevars, passed >>

\* trimCache: await cache.keys() settles.
KeysSettle(g) ==
    /\ gpc[g] = "keys"
    /\ LET keys == CacheKeys(caches[Strategy(greq[g]).cacheName]) IN
       IF Len(keys) > MAX_DYNAMIC_ITEMS
       THEN /\ gkeys' = [gkeys EXCEPT ![g] = keys]
            /\ gpc' = [gpc EXCEPT ![g] = "delete"]
       ELSE /\ gkeys' = [gkeys EXCEPT ![g] = << >>]
            /\ gpc' = [gpc EXCEPT ![g] = "done"]
    /\ UNCHANGED << origin, caches, greq, gfetched, ganswer, gfloor, revalidated >>
    /\ UNCHANGED << queuevars, lifevars, passed >>

\* DeleteSettles with a bug: trimCache deletes the newest key it listed.
DeleteNewest(g) ==
    /\ gpc[g] = "delete"
    /\ caches' = [caches EXCEPT ![Strategy(greq[g]).cacheName] =
                     CacheDelete(@, gkeys[g][Len(gkeys[g])])]
    /\ gpc' = [gpc EXCEPT ![g] = "keys"]
    /\ UNCHANGED << origin, greq, gfetched, ganswer, gkeys, gfloor, revalidated >>
    /\ UNCHANGED << queuevars, lifevars, passed >>

\* trimCache: await cache.delete(keys[0]) settles, and trimCache calls itself.
DeleteSettles(g) ==
    /\ gpc[g] = "delete"
    /\ caches' = [caches EXCEPT ![Strategy(greq[g]).cacheName] =
                     CacheDelete(@, gkeys[g][1])]
    /\ gpc' = [gpc EXCEPT ![g] = "keys"]
    /\ UNCHANGED << origin, greq, gfetched, ganswer, gkeys, gfloor, revalidated >>
    /\ UNCHANGED << queuevars, lifevars, passed >>

\* The fetch listener with the GET requests of R.
CacheStep(R) ==
    \/ Deploy
    \/ \E g \in Gets, request \in R : GetEvent(g, request)
    \/ \E g \in Gets : MatchSettles(g)
    \/ \E g \in Gets, outcome \in { "ok", "error", "reject" } : FetchSettles(g, outcome)
    \/ \E g \in Gets : PutSettles(g)
    \/ \E g \in Gets : KeysSettle(g)
    \/ \E g \in Gets : DeleteSettles(g)

\* The pages request images, and a resource as an image and as a script.
ImageNext == CacheStep({ r \in GetRequests : r.url.stem = "/media/badge" })

ImageSpec == Init /\ [][ImageNext]_vars

\* The pages request style sheets and scripts.
StyleNext == CacheStep({ r \in GetRequests : Strategy(r).cacheName = STATIC_CACHE })

StyleSpec == Init /\ [][StyleNext]_vars

\* The pages navigate and read data files.
DynamicNext == CacheStep({ r \in GetRequests : Strategy(r).cacheName = DYNAMIC_CACHE })

DynamicSpec == Init /\ [][DynamicNext]_vars

\* The fetch listener with the GET requests of R, one request at a time.
SerialStep(R) ==
    \/ Deploy
    \/ \E request \in R : GetEvent(1, request)
    \/ MatchSettles(1)
    \/ \E outcome \in { "ok", "error", "reject" } : FetchSettles(1, outcome)
    \/ PutSettles(1)
    \/ KeysSettle(1)
    \/ DeleteSettles(1)

\* A page navigates, to pages and to an image, and loads style sheets and
\* scripts.
FallbackNext ==
    SerialStep({ r \in GetRequests :
                    r.mode = "navigate" \/ Strategy(r).cacheName = STATIC_CACHE })

FallbackSpec == Init /\ [][FallbackNext]_vars

(***************************************************************************)
(* The fetch listener: what it does with a request.                        *)
(***************************************************************************)
\* FetchEvent with a bug: the origin of a GET is not looked at.
FetchEventAnyOrigin(request) ==
    IF request.method = "POST" /\ isFormEndpoint(request)
    THEN \E h \in Handlers : FormPost(h, request)
    ELSE IF \/ request.method # "GET"
            \/ Includes(request.pathname, << "/", "api", "/" >>)
    THEN /\ passed' = passed \cup { Target(request) }
         /\ UNCHANGED << queuevars, cachevars, lifevars >>
    ELSE \E g \in Gets : GetEvent(g, request)

\* The fetch event of a request: respondWith(handleFormSubmission(request))
\* for a POST to a form endpoint; a return for another request that is not
\* a GET, for one of another origin and for one to the API; the strategy
\* and respondWith for what is left.
FetchEvent(request) ==
    IF request.method = "POST" /\ isFormEndpoint(request)
    THEN \E h \in Handlers : FormPost(h, request)
    ELSE IF \/ request.method # "GET"
            \/ request.origin # LocationOrigin
            \/ Includes(request.pathname, << "/", "api", "/" >>)
    THEN /\ passed' = passed \cup { Target(request) }
         /\ UNCHANGED << queuevars, cachevars, lifevars >>
    ELSE \E g \in Gets : GetEvent(g, request)

RouterNext ==
    \/ \E request \in BodyEvents : FetchEvent(request)
    \/ \E request \in ReadEvents : FetchEvent(request)

RouterSpec == Init /\ [][RouterNext]_vars

(***************************************************************************)
(* The install and the activate listener, from the state in which the      *)
(* worker of the previous version is active and this one has been parsed.  *)
(***************************************************************************)
InstallInit ==
    /\ clock = ClockStart
    /\ net = "unreliable"
    /\ syncSupported \in BOOLEAN
    /\ store = {}
    /\ hpc = [h \in Handlers |-> "idle"]
    /\ hreq = [h \in Handlers |-> NoRequest]
    /\ hfetches = [h \in Handlers |-> 0]
    /\ hlive = [h \in Handlers |-> NotSettled]
    /\ hform = [h \in Handlers |-> NoForm]
    /\ hfault = [h \in Handlers |-> FALSE]
    /\ hresp = [h \in Handlers |-> NoResponse]
    /\ dpc = [d \in Drains |-> "idle"]
    /\ dforms = [d \in Drains |-> << >>]
    /\ dindex = [d \in Drains |-> 0]
    /\ dfault = [d \in Drains |-> FALSE]
    /\ posts = {}
    /\ pending = << >>
    /\ messages = EmptyBag
    /\ origin = 1
    /\ \E names \in SUBSET EarlierCaches :
          caches = [ name \in names |-> << OkResponse(RootPath, 1) >> ]
    /\ gpc = [g \in Gets |-> "idle"]
    /\ greq = [g \in Gets |-> NoGet]
    /\ gfetched = [g \in Gets |-> Null]
    /\ ganswer = [g \in Gets |-> Unanswered]
    /\ gkeys = [g \in Gets |-> << >>]
    /\ gfloor = [g \in Gets |-> 0]
    /\ revalidated = [u \in Urls |-> 0]
    /\ wstate = "parsed"
    /\ adding = [ name \in Precached |-> "idle" ]
    /\ deleting = {}
    /\ skipped = FALSE
    /\ active = PreviousVersion
    /\ claimed = FALSE
    /\ passed = {}

\* The install event: the listener calls caches.open for both precached
\* caches and waits for Promise.all of the two chains.
InstallEvent ==
    /\ wstate = "parsed"
    /\ wstate' = "installing"
    /\ adding' = [ name \in Precached |-> "open" ]
    /\ UNCHANGED << deleting, skipped, active, claimed >>
    /\ UNCHANGED << queuevars, cachevars, passed >>

\* caches.open(name) settles: the cache exists from now on, and
\* cache.addAll fetches the assets.
OpenSettles(name) ==
    /\ adding[name] = "open"
    /\ adding' = [adding EXCEPT ![name] = "fetch"]
    /\ caches' = IF name \in DOMAIN caches THEN caches
                 ELSE [ n \in DOMAIN caches \cup { name } |->
                          IF n = name THEN << >> ELSE caches[n] ]
    /\ UNCHANGED << wstate, deleting, skipped, active, claimed >>
    /\ UNCHANGED << origin, gpc, greq, gfetched, ganswer, gkeys, gfloor,
                    revalidated >>
    /\ UNCHANGED << queuevars, passed >>

\* cache.addAll(assets) of a precached cache settles; `failed` are the
\* assets whose fetch failed.  With none the responses are put and the chain
\* is fulfilled, and when the other chain is too, Promise.all is and
\* skipWaiting is called; with one nothing is put, the chain and Promise.all
\* are rejected and the installation fails.  The other chain goes on.
AddAllSettles(name, failed) ==
    /\ adding[name] = "fetch"
    /\ IF failed = {}
       THEN /\ adding' = [adding EXCEPT ![name] = "added"]
            /\ caches' = [caches EXCEPT ![name] =
                             PutAll(@, AddAll(Manifest(name), origin))]
            /\ IF \A n \in Precached : adding'[n] = "added"
               THEN /\ skipped' = TRUE
                    /\ wstate' = "installed"
               ELSE UNCHANGED << skipped, wstate >>
       ELSE /\ adding' = [adding EXCEPT ![name] = "failed"]
            /\ wstate' = IF wstate = "installing" THEN "redundant" ELSE wstate
            /\ UNCHANGED << caches, skipped >>
    /\ UNCHANGED << deleting, active, claimed >>
    /\ UNCHANGED << origin, gpc, greq, gfetched, ganswer, gkeys, gfloor,
                    revalidated >>
    /\ UNCHANGED << queuevars, passed >>

\* The activate event: the worker, which has called skipWaiting, becomes the
\* active one, and the listener calls caches.keys().
ActivateEvent ==
    /\ wstate = "installed"
    /\ skipped
    /\ wstate' = "keys"
    /\ active' = CACHE_VERSION
    /\ UNCHANGED << adding, deleting, skipped, claimed >>
    /\ UNCHANGED << queuevars, cachevars, passed >>

\* CacheNamesSettle with a bug: validCaches is not consulted.
CacheNamesDeleteAll ==
    /\ wstate = "keys"
    /\ LET keys == DOMAIN caches
           old == keys
       IN  /\ deleting' = old
           /\ wstate' = IF old = {} THEN "activated" ELSE "delete"
           /\ claimed' = (old = {})
    /\ UNCHANGED << adding, skipped, active >>
    /\ UNCHANGED << queuevars, cachevars, passed >>

\* caches.keys() settles: caches.delete is called for every key that is not
\* in validCaches, and clients.claim() once all of them have settled, which
\* is now when there is none.
CacheNamesSettle ==
    /\ wstate = "keys"
    /\ LET keys == DOMAIN caches
           old == { key \in keys : key \notin validCaches }
       IN  /\ deleting' = old
           /\ wstate' = IF old = {} THEN "activated" ELSE "delete"
           /\ claimed' = (old = {})
    /\ UNCHANGED << adding, skipped, active >>
    /\ UNCHANGED << queuevars, cachevars, passed >>

\* caches.delete(key) settles, and clients.claim() is called after the last.
CacheDeleteSettles(key) ==
    /\ wstate = "delete"
    /\ key \in deleting
    /\ caches' = [ n \in DOMAIN caches \ { key } |-> caches[n] ]
    /\ deleting' = deleting \ { key }
    /\ wstate' = IF deleting' = {} THEN "activated" ELSE wstate
    /\ claimed' = (deleting' = {})
    /\ UNCHANGED << adding, skipped, active >>
    /\ UNCHANGED << origin, gpc, greq, gfetched, ganswer, gkeys, gfloor,
                    revalidated >>
    /\ UNCHANGED << queuevars, passed >>

LifecycleNext ==
    \/ InstallEvent
    \/ \E name \in Precached : OpenSettles(name)
    \/ \E name \in Precached :
          \E failed \in SUBSET { Manifest(name)[i] : i \in 1..Len(Manifest(name)) } :
             AddAllSettles(name, failed)
    \/ ActivateEvent
    \/ CacheNamesSettle
    \/ \E key \in EarlierCaches \cup validCaches : CacheDeleteSettles(key)

LifecycleSpec == InstallInit /\ [][LifecycleNext]_vars

(***************************************************************************)
(* The worker once connectivity can come back for good: the settling of    *)
(* every awaited operation is weakly fair (a fetch, a store request and a  *)
(* matchAll each settle at some time); events and the clock are not.       *)
(***************************************************************************)
LiveNext == OneDrainNext \/ NetworkRestored

Fairness ==
    /\ WF_vars(Notify)
    /\ \A h \in Handlers :
          /\ WF_vars(\E status \in FetchOutcomes : LiveFetchSettles(h, status))
          /\ WF_vars(\E outcome \in StoreOutcomes : AddSettles(h, outcome))
          /\ WF_vars(\E resolved \in BOOLEAN : RegisterSettles(h, resolved))
    /\ WF_vars(\E outcome \in { "ok", "error" } : FormsLoaded(1, outcome))
    /\ WF_vars(\E status \in FetchOutcomes : ReplaySettles(1, status))
    /\ WF_vars(\E outcome \in StoreOutcomes : RemoveSettles(1, outcome))

LiveSpec == Init /\ [][LiveNext]_vars /\ Fairness

(***************************************************************************)
(* Vocabulary of the claims.                                               *)
(***************************************************************************)
\* The transaction of handler h's add has completed: its oncomplete has asked
\* for the clients to be told.
Committed(h) ==
    \/ \E i \in 1..Len(pending) : pending[i].by = << "handler", h >>
    \/ \E m \in BagToSet(messages) : m.by = << "handler", h >>

\* data holds the submitted field names, each with a value submitted for it.
FieldsMatch(data, fields) ==
    /\ { data[j].name : j \in 1..Len(data) } = { fields[i].name : i \in 1..Len(fields) }
    /\ \A j \in 1..Len(data) : \E i \in 1..Len(fields) : fields[i] = data[j]

\* The form drain d is replaying or removing.
Current(d) == dforms[d][dindex[d]]

\* Drain d has had an ok response to its replay of form.
ReplayOk(d, form) ==
    \E p \in posts : p.by = d /\ p.form = form /\ p.status # 0 /\ IsOk(p)

SyncedNotice(d, form) ==
    [ type |-> "FORM_SYNCED", form |-> form, by |-> << "drain", d >> ]

SyncedMessage(d, form, c) ==
    [ type |-> "FORM_SYNCED", form |-> form, by |-> << "drain", d >>,
      client |-> c ]

\* The FORM_SYNCED notices of drain d for form that wait for matchAll.
Waiting(d, form) ==
    Cardinality({ i \in 1..Len(pending) : pending[i] = SyncedNotice(d, form) })

(***************************************************************************)
(* Claims.                                                                 *)
(***************************************************************************)

\* C1: a form POST whose live fetch is rejected while no store operation
\* fails adds exactly one record to the store, the record built from the
\* request, whose data holds the submitted fields, and resolves with the 202
\* that carries that record's id.
C1_QueueDurability ==
    [][\A h \in Handlers :
          /\ (hpc[h] = "add" /\ hpc'[h] # "add" /\ ~hfault'[h]) =>
                /\ store' = store \cup { hform[h] }
                /\ Cardinality(store') = Cardinality(store) + 1
                /\ FieldsMatch(hform[h].data, hreq[h].fields)
          /\ (hpc[h] # "done" /\ hpc'[h] = "done" /\ hlive'[h] = 0 /\ ~hfault'[h]) =>
                hresp'[h] = QueuedResponse(hform[h])
      ]_vars

\* C2: a handler whose record has been committed to the store resolves with
\* the 202 carrying the record's id, whatever became of the sync registration.
C2_Committed202 ==
    \A h \in Handlers :
        (hpc[h] = "done" /\ Committed(h)) => hresp[h] = QueuedResponse(hform[h])

\* C3: a handler whose live fetch returned a response has made one network
\* attempt, has resolved with exactly that response, has built and stored no
\* record and has asked for no FORM_QUEUED message; every record in the store
\* and every FORM_QUEUED comes from a handler whose live fetch was rejected.
C3_ResponsePassedThrough ==
    /\ \A h \in Handlers :
          /\ hlive[h] > 0 =>
                /\ hpc[h] = "done"
                /\ hresp[h] = NetworkResponse(hlive[h])
                /\ hfetches[h] = 1
                /\ hform[h] = NoForm
                /\ ~Committed(h)
          /\ hpc[h] # "idle" => hfetches[h] = 1
          /\ Committed(h) => hlive[h] = 0
    /\ \A r \in store : \E h \in Handlers : hlive[h] = 0 /\ hform[h] = r

C3_Witness ==
    \E h, g \in Handlers :
        /\ hpc[h] = "done" /\ hlive[h] = 500 /\ hresp[h].status = 500
        /\ hpc[g] = "done" /\ hlive[g] = 0 /\ hform[g] \in store

\* C4: a record leaves the store, or changes, only in the step in which the
\* removeQueuedForm of a drain settles, the drain having had an ok response to
\* its replay of that very record.
C4_RemovedOnlyAfterOwnReplay ==
    [][\A r \in store :
          r \notin store' =>
             \E d \in Drains : /\ dpc[d] = "remove" /\ dpc'[d] # "remove"
                               /\ Current(d) = r
                               /\ ReplayOk(d, r)
      ]_vars

C6_FailedReplayKeepsEntry ==
    /\ [](/\ \A d \in Drains : \A i \in 1..Len(pending) :
                pending[i].by = << "drain", d >> => ReplayOk(d, pending[i].form)
          /\ \A d \in Drains : \A m \in BagToSet(messages) :
                m.by = << "drain", d >> => ReplayOk(d, m.form)
          /\ (\A p \in posts : p.status = 0 \/ ~IsOk(p)) =>
                \A h \in Handlers : Committed(h) => hform[h] \in store)
    /\ [][\A d \in Drains :
             (dpc[d] = "post" /\ dindex'[d] = dindex[d] + 1) =>
                 UNCHANGED << store, pending, messages >>
         ]_vars

C6_Witness ==
    \E d \in Drains :
        /\ dpc[d] = "done" /\ Len(dforms[d]) = 2
        /\ \A i \in 1..2 : dforms[d][i] \in store
        /\ \E p \in posts : p.by = d /\ p.status = 0
        /\ \E p \in posts : p.by = d /\ p.status = 500
        /\ messages # EmptyBag

\* Vocabulary of C7.  The record of handler h has been replayed as a request
\* with the method and url of h's request and has had an ok response, and
\* each client has had its FORM_SYNCED.
Announced(h) ==
    /\ \E p \in posts : /\ p.form = hform[h] /\ p.url = hreq[h].url
                        /\ p.method = hreq[h].method
                        /\ p.status # 0 /\ IsOk(p)
    /\ \A c \in Clients : \E m \in BagToSet(messages) :
          m.type = "FORM_SYNCED" /\ m.form = hform[h] /\ m.client = c

\* A drain has been started, by any of its four events, with the network
\* restored and the record of handler h in the store.
Draining(h) == net = "restored" /\ dpc[1] = "load" /\ hform[h] \in store

C8_StorageFailure503 ==
    \A h \in Handlers :
        /\ hpc[h] # "hung"
        /\ (hpc[h] = "done" /\ hlive[h] = 0 /\ ~Committed(h)) =>
               hresp[h] = QueueFailedResponse

\* C9: when the caches.match of a cacheFirst call for the image cache settles
\* and the image cache holds a response for the request, the call returns
\* that response, issues no fetch and leaves every cache as it is.
C9_CacheFirstHit ==
    [][\A g \in Gets :
          (/\ gpc[g] = "match" /\ gpc'[g] # "match"
           /\ Strategy(greq[g]).name = "cacheFirst"
           /\ Strategy(greq[g]).cacheName = IMAGE_CACHE
           /\ Match(caches[IMAGE_CACHE], greq[g].url) # Null) =>
              /\ ganswer'[g] = Match(caches[IMAGE_CACHE], greq[g].url)
              /\ gpc'[g] = "done"
              /\ caches' = caches
      ]_vars

\* C10: a request for a style sheet or a script that began after a
\* revalidation of its url had returned the cached entry and then stored the
\* ok response it fetched is answered with content at least as new as that
\* response.
C10_RevalidatedIsServed ==
    \A g \in Gets :
        (/\ Strategy(greq[g]).name = "staleWhileRevalidate"
         /\ Strategy(greq[g]).cacheName = STATIC_CACHE
         /\ gfloor[g] > 0
         /\ ganswer[g] # Unanswered) =>
            /\ ganswer[g].status = 200
            /\ ganswer[g].url = greq[g].url
            /\ ganswer[g].version >= gfloor[g]

\* The cache the trimCache of GET g works on.
Trimmed(g) == Strategy(greq[g]).cacheName

\* C11: a trimCache that has listed the keys of its cache stops, deleting
\* nothing, exactly when the cache holds at most MAX_DYNAMIC_ITEMS entries,
\* so that the cache holds at most that many when it completes; when it holds
\* more, and is as it was listed, the trim deletes the oldest entry and no
\* other, keeps the others in their order, and lists the keys again.
C11_TrimBound ==
    [][\A g \in Gets :
          /\ (gpc[g] = "keys" /\ gpc'[g] # "keys") =>
                /\ caches' = caches
                /\ gpc'[g] = "done" <=> Len(caches[Trimmed(g)]) <= MAX_DYNAMIC_ITEMS
                /\ gpc'[g] = "delete" <=> Len(caches[Trimmed(g)]) > MAX_DYNAMIC_ITEMS
                /\ gpc'[g] = "done" => Len(caches'[Trimmed(g)]) <= MAX_DYNAMIC_ITEMS
          /\ (/\ gpc[g] = "delete" /\ gpc'[g] # "delete"
              /\ gkeys[g] = CacheKeys(caches[Trimmed(g)])) =>
                /\ caches' = [caches EXCEPT ![Trimmed(g)] = Tail(@)]
                /\ Len(caches'[Trimmed(g)]) = Len(caches[Trimmed(g)]) - 1
                /\ gpc'[g] = "keys"
      ]_vars

C11_Witness ==
    \E g \in Gets :
        /\ gpc[g] = "keys" /\ Trimmed(g) = DYNAMIC_CACHE
        /\ Len(gkeys[g]) = MAX_DYNAMIC_ITEMS + 1
        /\ CacheKeys(caches[DYNAMIC_CACHE]) = Tail(gkeys[g])

\* C12: once the fetch of an asset of either manifest has failed during the
\* installation, no precached cache of this version holds a response,
\* skipWaiting has not been called and the worker of the previous version is
\* the active one.
C12_InstallAtomicity ==
    (\E name \in Precached : adding[name] = "failed") =>
        /\ \A name \in Precached :
              name \in DOMAIN caches => caches[name] = << >>
        /\ ~skipped
        /\ active = PreviousVersion

\* What holds of a state of the activate listener, and after it.
Switching ==
    wstate \in { "keys", "delete", "activated" } =>
        /\ deleting \cap validCaches = {}
        /\ \A name \in Precached :
              /\ name \in DOMAIN caches
              /\ caches[name] = AddAll(Manifest(name), origin)
        /\ wstate = "delete" => deleting = DOMAIN caches \ validCaches
        /\ claimed <=> wstate = "activated"
        /\ claimed => /\ deleting = {}
                      /\ DOMAIN caches \subseteq validCaches

\* What holds of a step of the activate listener.
SwitchingStep ==
    wstate \in { "keys", "delete" } =>
        /\ \A name \in DOMAIN caches \cap validCaches :
              name \in DOMAIN caches' /\ caches'[name] = caches[name]
        /\ DOMAIN caches' \subseteq DOMAIN caches
        /\ (DOMAIN caches \ DOMAIN caches') \subseteq deleting
        /\ wstate = "keys" =>
              /\ caches' = caches
              /\ deleting' = DOMAIN caches \ validCaches

\* C13: the activate listener deletes the caches whose names are not in
\* validCaches and no other: while it runs, the caches of this version stay
\* as the installation left them and only caches awaiting their deletion
\* disappear; clients.claim() is called only when no deletion is pending,
\* and from then on no cache of an earlier version exists.
C13_VersionSwitchover == []Switching /\ [][SwitchingStep]_vars

C13_Witness ==
    /\ wstate = "delete"
    /\ deleting = { "baytides-v1" }
    /\ DOMAIN caches = Precached \cup { "baytides-v1" }
    /\ active = CACHE_VERSION

\* C14: when respondWith is given something else than a response for the
\* url of the request, which is all a strategy returns, it is the fallback:
\* for a navigation the cached '/offline', or the cached '/' when '/offline'
\* is in no cache, and for another request the 503.
C14_FallbackPolicy ==
    [][\A g \in Gets :
          (/\ ganswer[g] = Unanswered
           /\ ganswer'[g] # Unanswered
           /\ ganswer'[g].url # greq[g].url) =>
              ganswer'[g] =
                 IF greq[g].mode # "navigate" THEN OfflineResponse
                 ELSE IF CachesMatch(caches, OfflinePath) # Null
                 THEN CachesMatch(caches, OfflinePath)
                 ELSE CachesMatch(caches, RootPath)
      ]_vars

\* Whether the step is the fetch event of a request that is neither a POST
\* to a form endpoint nor a GET of the worker's origin.
Bypass(request) ==
    /\ FetchEvent(request)
    /\ ~(request.method = "POST" /\ isFormEndpoint(request))
    /\ ~(request.method = "GET" /\ request.origin = LocationOrigin)

\* C15: the fetch event of a request that is neither a POST to a form
\* endpoint nor a GET of the worker's origin changes nothing of the queue,
\* the caches and the handlers (no respondWith, no cache or store
\* operation); and every request a handler has been started for is a POST
\* to a form endpoint or a GET of the worker's origin.
C15_RouterPassThrough ==
    /\ [][(\E request \in BodyEvents : Bypass(request)) =>
             UNCHANGED << queuevars, cachevars, lifevars >>]_vars
    /\ [][(\E request \in ReadEvents : Bypass(request)) =>
             UNCHANGED << queuevars, cachevars, lifevars >>]_vars
    /\ [](/\ \A h \in Handlers :
                hreq[h] # NoRequest =>
                   hreq[h].method = "POST" /\ isFormEndpoint(hreq[h])
          /\ \A g \in Gets :
                greq[g] # NoGet =>
                   greq[g].method = "GET" /\ greq[g].origin = LocationOrigin)

C15_Witness ==
    /\ \E request \in passed : request.method = "GET" /\ request.origin # LocationOrigin
    /\ \E request \in passed : request.method = "POST" /\ ~isFormEndpoint(request)
    /\ \E request \in passed : request.method \notin { "GET", "POST" }
    /\ \E h \in Handlers : hreq[h] # NoRequest
    /\ \E g \in Gets : greq[g] # NoGet

\* C16: with drains that overlap, a drain about to replay an entry has not
\* replayed it before; when the deletion of a drain commits, no record of
\* the entry's id is left in the store; and a record leaves the store only
\* when some drain has had an ok response to a replay of it.
C16_OverlappingDrains ==
    /\ [](\A d \in Drains :
             dpc[d] = "post" => ~\E q \in posts : q.by = d /\ q.form = Current(d))
    /\ [][\A d \in Drains :
             (/\ dpc[d] = "remove" /\ dpc'[d] # "remove"
              /\ Len(pending') > Len(pending)) =>
                 ~KeyTaken(store', Current(d).id)]_vars
    /\ [][\A r \in store :
             r \notin store' => \E d \in Drains : ReplayOk(d, r)]_vars

\* C17: a drain replays the entries of its snapshot in order, each at most
\* once and whatever the replays and deletions before it ended with: a drain
\* that has left its loop, or can take no further step, has had a replay
\* attempt settle for every entry of its snapshot.
C17_PerItemIsolation ==
    \A d \in Drains :
        /\ dpc[d] \in { "post", "remove" } =>
              /\ \A i \in 1..(dindex[d] - 1) :
                    \E p \in posts : p.by = d /\ p.form = dforms[d][i]
              /\ dpc[d] = "post" =>
                    ~\E p \in posts : p.by = d /\ p.form = Current(d)
        /\ dpc[d] \in { "done", "hung" } =>
              \A i \in 1..Len(dforms[d]) :
                 \E p \in posts : p.by = d /\ p.form = dforms[d][i]

\* C18: the queuedForms built for two submissions have different ids, and
\* the deletion of a drain removes no record but the entry it replayed.
C18_IdUniqueness ==
    /\ [](\A h, g \in Handlers :
             (h # g /\ hform[h] # NoForm /\ hform[g] # NoForm) =>
                hform[h].id # hform[g].id)
    /\ [][\A d \in Drains :
             (dpc[d] = "remove" /\ dpc'[d] # "remove") =>
                store \ store' \subseteq { Current(d) }]_vars

\* C19: when no GET is being handled, every write to the dynamic cache having
\* been followed by what the strategy does after it, the dynamic cache holds
\* at most MAX_DYNAMIC_ITEMS responses.
C19_DynamicBoundAtRest ==
    (\A g \in Gets : gpc[g] \in { "idle", "done" }) =>
        Len(caches[DYNAMIC_CACHE]) <= MAX_DYNAMIC_ITEMS

\* C20: no step removes the response of a url from the static cache: a
\* revalidation replaces the response of its own url, and no trim evicts
\* one.
C20_StaticNeverEvicted ==
    [][\A i \in 1..Len(caches[STATIC_CACHE]) :
          Match(caches'[STATIC_CACHE], caches[STATIC_CACHE][i].url) # Null]_vars

\* C21: a url has a response in at most one of the static, the image and the
\* dynamic cache.
C21_PartitionExclusivity ==
    \A url \in Urls :
        Cardinality({ name \in validCaches : Match(caches[name], url) # Null }) <= 1

\* Whether the step gives request to a strategy.
Dispatched(request) ==
    \E g \in Gets : /\ gpc[g] \in { "idle", "done" }
                    /\ greq'[g] = request
                    /\ gpc'[g] \in { "match", "fetch" }

\* Whether GET g is with the strategy and the cache of the four rules, the
\* first that matches, and where that strategy begins.
Classified(g) ==
    LET request == greq[g]
        rule ==
            IF request.destination = "image"
               \/ request.url.ext \in { "webp", "jpg", "jpeg", "png", "gif", "svg", "ico" }
            THEN << "cacheFirst", IMAGE_CACHE >>
            ELSE IF request.destination \in { "style", "script" }
                    \/ request.url.ext \in { "css", "js" }
            THEN << "staleWhileRevalidate", STATIC_CACHE >>
            ELSE IF request.mode = "navigate" \/ request.url.ext = "html"
                    \/ request.pathname = << "/" >>
            THEN << "networkFirst", DYNAMIC_CACHE >>
            ELSE << "staleWhileRevalidate", DYNAMIC_CACHE >>
    IN  /\ Strategy(request).name = rule[1]
        /\ Strategy(request).cacheName = rule[2]
        /\ gpc[g] = IF rule[1] = "networkFirst" THEN "fetch" ELSE "match"

\* C22 as stated: the fetch event of every GET of the worker's origin gives
\* the request to the strategy of the first rule that matches.
C22_AsStated ==
    /\ [][\A request \in ReadEvents :
             (/\ FetchEvent(request)
              /\ request.method = "GET" /\ request.origin = LocationOrigin) =>
                 Dispatched(request)]_vars
    /\ [](\A g \in Gets : greq[g] # NoGet => Classified(g))

\* C22 amended: the fetch event of every GET of the worker's origin whose
\* pathname does not include '/api/' gives the request to the strategy of
\* the first rule that matches, and that of one whose pathname includes it
\* gives it to none.
C22_Classification ==
    /\ [][\A request \in ReadEvents :
             (/\ FetchEvent(request)
              /\ request.method = "GET" /\ request.origin = LocationOrigin) =>
                 IF Includes(request.pathname, << "/", "api", "/" >>)
                 THEN UNCHANGED << gpc, greq >>
                 ELSE Dispatched(request)]_vars
    /\ [](\A g \in Gets : greq[g] # NoGet => Classified(g))

C22_Witness ==
    /\ \E g \in Gets : greq[g] # NoGet /\ greq[g].mode = "navigate"
                       /\ greq[g].url.ext = "jpg" /\ gpc[g] = "match"
    /\ \E g \in Gets : greq[g] # NoGet /\ greq[g].pathname = << "/" >>
                       /\ gpc[g] = "fetch"
    /\ \E request \in passed : /\ request.method = "GET"
                               /\ request.origin = LocationOrigin

\* C23: when the fetch of a strategy settles with a response that is not ok,
\* no cache changes and no put is issued, and networkFirst and cacheFirst
\* return that response; a put is only ever issued with an ok response of
\* the request's url, and every response in a cache is ok.
C23_OnlyOkCached ==
    /\ [][\A g \in Gets :
             FetchSettles(g, "error") =>
                /\ caches' = caches
                /\ gpc'[g] = "done"
                /\ Strategy(greq[g]).name # "staleWhileRevalidate" =>
                      ganswer'[g] = ErrorResponse(greq[g].url)]_vars
    /\ [](/\ \A g \in Gets :
                gpc[g] = "put" =>
                   IsOk(gfetched[g]) /\ gfetched[g].url = greq[g].url
          /\ \A name \in validCaches :
                \A i \in 1..Len(caches[name]) : IsOk(caches[name][i]))

C23_Witness ==
    \E g \in Gets :
        /\ gpc[g] = "done"
        /\ Strategy(greq[g]).name = "networkFirst"
        /\ ganswer[g] = ErrorResponse(greq[g].url)
        /\ CachesMatch(caches, greq[g].url) # Null

\* What holds of a step of networkFirst for GET g: it begins with the
\* fetch; a fetch that is rejected, and no other, is followed by the lookup
\* of the request in the caches, and a fetch that settles with a response
\* returns that response; the lookup returns the match, and with none the
\* strategy returns null and the fallback is what respondWith is given.
NetworkFirstStep(g) ==
    LET url == greq[g].url IN
    /\ (gpc[g] \in { "idle", "done" } /\ gpc'[g] # gpc[g]) =>
          (Strategy(greq'[g]).name = "networkFirst" =>
              gpc'[g] = "fetch" /\ ganswer'[g] = Unanswered)
    /\ (gpc[g] = "fetch" /\ Strategy(greq[g]).name = "networkFirst") =>
          /\ FetchSettles(g, "reject") =>
                gpc'[g] = "match" /\ ganswer'[g] = Unanswered /\ caches' = caches
          /\ FetchSettles(g, "error") =>
                gpc'[g] = "done" /\ ganswer'[g] = ErrorResponse(url)
          /\ FetchSettles(g, "ok") =>
                gpc'[g] = "put" /\ ganswer'[g] = OkResponse(url, origin)
    /\ (gpc[g] = "match" /\ gpc'[g] # "match"
        /\ Strategy(greq[g]).name = "networkFirst") =>
          /\ caches' = caches
          /\ gpc'[g] = "done"
          /\ CachesMatch(caches, url) # Null => ganswer'[g] = CachesMatch(caches, url)
          /\ CachesMatch(caches, url) = Null => ganswer'[g].url # url

StaleWhileRevalidateStep(g) ==
    LET url == greq[g].url
        cached == CachesMatch(caches, url)
    IN  Strategy(greq[g]).name = "staleWhileRevalidate" =>
        /\ (gpc[g] = "match" /\ gpc'[g] # "match") =>
              /\ gpc'[g] = "fetch"
              /\ caches' = caches
              /\ ganswer'[g] = IF cached # Null THEN cached ELSE Unanswered
        /\ (gpc[g] \in { "fetch", "put", "keys", "delete" }
            /\ ganswer[g] # Unanswered) => ganswer'[g] = ganswer[g]
        /\ gpc[g] = "fetch" =>
              /\ (FetchSettles(g, "error") \/ FetchSettles(g, "reject")) =>
                    caches' = caches /\ gpc'[g] = "done"
              /\ (FetchSettles(g, "error") /\ ganswer[g] = Unanswered) =>
                    ganswer'[g] = ErrorResponse(url)
              /\ (FetchSettles(g, "reject") /\ ganswer[g] = Unanswered) =>
                    ganswer'[g] = OfflineResponse \/ ganswer'[g].url = OfflinePath
                       \/ ganswer'[g] = Null
              /\ (FetchSettles(g, "ok") /\ ganswer[g] = Unanswered) =>
                    /\ gpc'[g] = "put"
                    /\ ganswer'[g] = Unanswered
                    /\ gfetched'[g] = OkResponse(url, origin)
        /\ (gpc[g] = "put" /\ gpc'[g] # "put" /\ ganswer[g] = Unanswered) =>
              ganswer'[g] = gfetched[g]

C26_FailureContainment ==
    /\ \A d \in Drains : dpc[d] \notin { "rejected", "hung" }
    /\ \A h \in Handlers : hpc[h] # "hung"

\* C27: with drains one after another, a drain never issues the POST of an
\* entry for which an earlier drain has had an ok response.
C27_NoRepostAfterOk ==
    \A d \in Drains :
        dpc[d] = "post" =>
           ~\E p \in posts : /\ p.by # d
                             /\ p.form = Current(d)
                             /\ p.status # 0 /\ IsOk(p)

\* C28: the POST a drain issues has the url and the method of an original
\* request and carries exactly that request's (field name, value) pairs, each
\* as many times as it was submitted, repeated field names included.
C28_RoundTrip ==
    \A p \in posts :
        \E request \in FormPosts :
            /\ p.url = request.url
            /\ p.method = request.method
            /\ \A f \in { request.fields[i] : i \in 1..Len(request.fields) }
                        \cup { p.body[j] : j \in 1..Len(p.body) } :
                  Cardinality({ i \in 1..Len(request.fields) : request.fields[i] = f })
                     = Cardinality({ j \in 1..Len(p.body) : p.body[j] = f })

\* C29: when networkFirst, its fetch rejected, returns from its lookup, and
\* the dynamic cache, where networkFirst stores what it fetches, holds a
\* response for the request, that response is the one returned, not a copy
\* of the url in another cache.
C29_FreshestFallback ==
    [][\A g \in Gets :
          (/\ Strategy(greq[g]).name = "networkFirst"
           /\ gpc[g] = "match" /\ gpc'[g] = "done"
           /\ Match(caches[DYNAMIC_CACHE], greq[g].url) # Null)
          => ganswer'[g] = Match(caches[DYNAMIC_CACHE], greq[g].url)]_vars

\* C30: with trims and writes interleaved, no step takes a cache that holds
\* at least MAX_DYNAMIC_ITEMS responses below that number, and no step
\* removes a response from a cache that holds that number or fewer.
C30_NoOverEviction ==
    [][\A name \in validCaches :
          /\ Len(caches[name]) >= MAX_DYNAMIC_ITEMS =>
                Len(caches'[name]) >= MAX_DYNAMIC_ITEMS
          /\ Len(caches[name]) <= MAX_DYNAMIC_ITEMS =>
                Len(caches'[name]) >= Len(caches[name])]_vars

====
